---- MODULE Spec2Model ----
(***************************************************************************)
(* Model of get_watchlist_data.py: the element capture functions           *)
(* (capture_element_full with its single-shot and tiled/stitched paths)    *)
(* and the main routine that captures an element and uploads it.           *)
(*                                                                         *)
(* Lengths reported by the page (getBoundingClientRect) are fractional.    *)
(* They are represented as integer numerators over SubPixel, so that       *)
(* int() and math.ceil() are modelled by what they do.                     *)
(* Document rows are numbered from 0; a pixel row is represented by the    *)
(* number of the document row it shows, NoPixel for a row never painted.   *)
(***************************************************************************)
EXTENDS Integers, Sequences, FiniteSets

\* ---------------------------------------------------------------- bounds
SubPixel == 2          \* fractional lengths are multiples of 1/SubPixel px
MaxViewport == 3       \* viewport heights 1..MaxViewport
MaxDoc == 5            \* document heights up to MaxDoc
MaxAbove == 1          \* the element may start up to MaxAbove px above row 0
MaxElemHeight == 4     \* element heights (px) up to MaxElemHeight
MaxElemWidth == 2      \* element widths (px) up to MaxElemWidth
MaxIntervals == 2      \* --intervals lists of 1..MaxIntervals entries

\* ------------------------------------------------------------- constants
MinWindowWidth == 800
MinWindowHeight == 600
DefaultWindowWidth == 1366
DefaultWindowHeight == 900

NoPixel == 0 - 1
NoFile == [written |-> FALSE]
\* orig_size before line 112 has assigned it.
NoSize == [width |-> 0, height |-> 0]

Max(a, b) == IF a >= b THEN a ELSE b
Min(a, b) == IF a <= b THEN a ELSE b

\* Python int() of the fraction n/SubPixel: truncation toward zero.
PyInt(n) == IF n >= 0 THEN n \div SubPixel ELSE 0 - ((0 - n) \div SubPixel)

\* A plausible slip: truncation where the ceiling is meant.
PyCeilTruncates(n) == PyInt(n)
\* Python int(math.ceil()) of the fraction n/SubPixel.
PyCeil(n) == 0 - ((0 - n) \div SubPixel)

VARIABLES
    page,              \* the rendered page: geometry of document and element
    scrollY,           \* the page's current vertical scroll offset
    windowSize,        \* the browser window's current size
    max_single_height, \* argument of capture_element_full
    pc,                \* position inside capture_element_full
    exc,               \* the exception in flight or raised ("none" if none)
    metrics,           \* result of the geometry query
    elem,              \* elem_top, elem_left, elem_width, elem_height, doc_*
    orig_size,         \* window size recorded before the resize
    viewport_h,
    tiles,             \* tile scroll offsets
    idx,               \* index of the next tile to process
    stitched,          \* the canvas: stitched[r+1] is canvas row r
    pasted_any,
    placed,            \* history: destination row range of each pasted tile
    outFile,           \* the file at out_path
    calls,             \* history: number of driver calls of each kind
    restored,          \* history: outcome of the restoring set_window_size
    margs,             \* main: parsed command line
    mpc,               \* main: position
    mexc,              \* main: exception leaving main ("none" if none)
    captureFn,         \* main: the capture function that was called
    captured,          \* main: how the capture call ended ("none", "ok", "raised")
    uploads,           \* main: history of upload attempts and their outcomes
    quits,             \* both scripts: number of driver.quit() calls
    drivers,           \* both scripts: number of drivers create_driver returned
    nargs,             \* capture_nifty_screenshots main: parsed command line
    npc,               \* capture_nifty_screenshots main: position
    nidx,              \* index of the interval the for loop is at
    nexc,              \* exception leaving that main ("none" if none)
    ncaptures,         \* history: intervals captured, with the source used
    nsent              \* history: upload attempts and their outcomes

fullVars == <<page, scrollY, windowSize, max_single_height, pc, exc, metrics,
              elem, orig_size, viewport_h, tiles, idx, stitched, pasted_any,
              placed, outFile, calls, restored>>
mainVars == <<margs, mpc, mexc, captureFn, captured, uploads, quits>>
vars == <<page, scrollY, windowSize, max_single_height, pc, exc, metrics,
          elem, orig_size, viewport_h, tiles, idx, stitched, pasted_any,
          placed, outFile, calls, restored,
          margs, mpc, mexc, captureFn, captured, uploads, quits,
          drivers, nargs, npc, nidx, nexc, ncaptures, nsent>>
niftyVars == <<nargs, npc, nidx, nexc, ncaptures, nsent>>

\* ------------------------------------------------------------- the page
\* Pages a browser can show: the document is at least as tall as the
\* viewport (scrollHeight >= innerHeight), the element starts above the
\* document's end, possibly above row 0 (negative offset), and lengths of
\* the bounding box are fractional.
Pages ==
    { [present |-> p, docHeight |-> d, docWidth |-> DefaultWindowWidth,
       viewportHeight |-> v, viewportWidth |-> DefaultWindowWidth,
       top2 |-> t, left2 |-> 1, width2 |-> w, height2 |-> h] :
         p \in BOOLEAN,
         v \in 1..MaxViewport,
         d \in 1..MaxDoc,
         t \in (0 - MaxAbove * SubPixel)..(MaxDoc * SubPixel - 1),
         w \in 1..(MaxElemWidth * SubPixel),
         h \in 0..(MaxElemHeight * SubPixel) }

ReachablePage(p) == p.viewportHeight <= p.docHeight /\ p.top2 < p.docHeight * SubPixel

\* The browser applies window.scrollTo(0, y) clamped to the scrollable range.
ClampScroll(y, docHeight, viewportHeight) ==
    Max(0, Min(y, docHeight - viewportHeight))

\* driver.get_screenshot_as_png(): buffer row i (0-based) of the viewport
\* shows document row scroll + i.
Screenshot(scroll, height, docHeight) ==
    [i \in 1..height |->
        IF scroll + i - 1 < docHeight THEN scroll + i - 1 ELSE NoPixel]

\* The JS of the geometry query: the bounding box is relative to the viewport.
MetricsOf(p, scroll) ==
    [left |-> p.left2, top |-> p.top2 - SubPixel * scroll,
     width |-> p.width2, height |-> p.height2, scrollY |-> scroll,
     docHeight |-> p.docHeight, docWidth |-> p.docWidth,
     viewportHeight |-> p.viewportHeight, viewportWidth |-> p.viewportWidth]

NoMetrics == MetricsOf([present |-> FALSE, docHeight |-> 0, docWidth |-> 0,
                        viewportHeight |-> 0, viewportWidth |-> 0, top2 |-> 0,
                        left2 |-> 0, width2 |-> 0, height2 |-> 0], 0)

\* Lines 103-108: the integers computed from the metrics.
ElemOf(m) ==
    [top |-> PyInt(m.top + SubPixel * m.scrollY),
     left |-> PyInt(m.left),
     width |-> PyCeil(m.width),
     height |-> PyCeil(m.height),
     doc_height |-> m.docHeight,
     doc_width |-> m.docWidth]

\* PIL Image.crop((l, t, r, b)) on rows: the result has b - t rows; rows
\* outside the source are blank.
CropRows(img, t, b) ==
    [k \in 1..Max(0, b - t) |->
        IF t + k >= 1 /\ t + k <= Len(img) THEN img[t + k] ELSE NoPixel]

\* PIL Image.paste(crop, (0, y)): rows of the crop land at y, y+1, ...;
\* rows falling outside the canvas are clipped.
PasteRows(canvas, crop, y) ==
    [r \in 1..Len(canvas) |->
        IF r - 1 >= y /\ r - 1 < y + Len(crop) THEN crop[r - y] ELSE canvas[r]]

\* ------------------------------------------- capture_element_full: steps
\* A timeout of the wait skipped: the function goes on without the element.
ElementFoundNoWait(p) == TRUE
\* wait.until(presence_of_element_located): succeeds iff the element exists.
ElementFound(p) == p.present

\* try/finally missing: a failure leaves the function at once.
SingleShotFailTargetNoFinally == "raised"
\* The finally clause: every failure inside the try goes through the restore.
SingleShotFailTarget == "restore"

\* Tiles start at the element's top, not at a multiple of the viewport height.
TileStartUnaligned(start_y, vh) == Max(0, start_y)
\* Tiles start one viewport too late (ceiling instead of floor).
TileStartCeil(start_y, vh) == Max(0, start_y - (start_y % vh) + vh)
\* Line 135: first tile offset.
TileStart(start_y, vh) == Max(0, start_y - (start_y % vh))

RECURSIVE TileOffsetsInclusive(_, _, _)
\* The loop with <= : the offset equal to end_y is appended too.
TileOffsetsInclusive(y, end_y, vh) ==
    IF y <= end_y THEN <<y>> \o TileOffsetsInclusive(y + vh, end_y, vh) ELSE <<>>
RECURSIVE TileOffsets(_, _, _)
\* Lines 136-138: the while loop.
TileOffsets(y, end_y, vh) ==
    IF y < end_y THEN <<y>> \o TileOffsets(y + vh, end_y, vh) ELSE <<>>

\* Lines 148-150.
RelTop(elem_top, scroll_y) == elem_top - scroll_y
CropTop(rel_top) == Max(0, rel_top)
CropBottom(rel_top, elem_height, vh) == Min(vh, rel_top + elem_height)
\* The clamp at 0 forgotten.
PasteYUnclamped(scroll_y, start_y) == scroll_y - start_y
\* Line 158.
PasteY(scroll_y, start_y) == Max(0, scroll_y - start_y)

Bump(c, k) == [c EXCEPT ![k] = @ + 1]

fullLocals == <<metrics, elem, orig_size, viewport_h, tiles, idx, stitched,
                pasted_any, placed>>

\* Lines 95-96.
WaitForElement ==
    /\ pc = "wait"
    /\ IF ElementFound(page)
       THEN pc' = "metrics" /\ exc' = exc
       ELSE pc' = "raised" /\ exc' = "ElementNotFound"
    /\ UNCHANGED <<page, scrollY, windowSize, max_single_height, fullLocals,
                   outFile, calls, restored, mainVars, drivers, niftyVars>>

\* Lines 98-108: the geometry query returns the metrics or raises.
QueryMetrics ==
    /\ pc = "metrics"
    /\ calls' = Bump(calls, "geometry")
    /\ \/ /\ metrics' = MetricsOf(page, scrollY)
          /\ elem' = ElemOf(metrics')
          /\ pc' = "branch" /\ exc' = exc
       \/ /\ UNCHANGED <<metrics, elem>>
          /\ pc' = "raised" /\ exc' = "WebDriverException"
    /\ UNCHANGED <<page, scrollY, windowSize, max_single_height, orig_size,
                   viewport_h, tiles, idx, stitched, pasted_any, placed,
                   outFile, restored, mainVars, drivers, niftyVars>>

\* Lines 111-112: get_window_size stands before the try; when it raises the
\* function is left without resize and without restore.
SingleShotBegin ==
    /\ pc = "branch"
    /\ elem.doc_height <= max_single_height
    /\ \/ orig_size' = windowSize /\ pc' = "resize" /\ exc' = exc
       \/ orig_size' = orig_size /\ pc' = "raised" /\ exc' = "WebDriverException"
    /\ UNCHANGED <<page, scrollY, windowSize, max_single_height, metrics,
                   elem, viewport_h, tiles, idx, stitched, pasted_any, placed,
                   outFile, calls, restored, mainVars, drivers, niftyVars>>

SingleShotSize == [width |-> Max(elem.doc_width, MinWindowWidth),
                   height |-> Max(elem.doc_height, MinWindowHeight)]

\* Line 114. A failing resize may or may not have changed the window.
Resize ==
    /\ pc = "resize"
    /\ calls' = Bump(calls, "resize")
    /\ \/ /\ windowSize' = SingleShotSize
          /\ scrollY' = ClampScroll(scrollY, page.docHeight, SingleShotSize.height)
          /\ pc' = "screenshot" /\ exc' = exc
       \/ /\ windowSize' \in {windowSize, SingleShotSize}
          /\ scrollY' = scrollY
          /\ pc' = SingleShotFailTarget /\ exc' = "WebDriverException"
    /\ UNCHANGED <<page, max_single_height, fullLocals, outFile, restored,
                   mainVars, drivers, niftyVars>>

\* Lines 115-116.
SingleScreenshot ==
    /\ pc = "screenshot"
    /\ calls' = Bump(calls, "capture")
    /\ \/ pc' = "crop" /\ exc' = exc
       \/ pc' = SingleShotFailTarget /\ exc' = "WebDriverException"
    /\ UNCHANGED <<page, scrollY, windowSize, max_single_height, fullLocals,
                   outFile, restored, mainVars, drivers, niftyVars>>

\* Line 117.
SingleCrop ==
    /\ pc = "crop"
    /\ \/ pc' = "save" /\ exc' = exc
       \/ pc' = SingleShotFailTarget /\ exc' = "CropError"
    /\ UNCHANGED <<page, scrollY, windowSize, max_single_height, fullLocals,
                   outFile, calls, restored, mainVars, drivers, niftyVars>>

\* Lines 117-119: the crop box is (left, top, left + width, top + height).
SingleSave ==
    /\ pc = "save"
    /\ \/ /\ outFile' =
               [written |-> TRUE,
                width |-> (elem.left + elem.width) - elem.left,
                height |-> (elem.top + elem.height) - elem.top,
                rows |-> CropRows(Screenshot(scrollY, windowSize.height,
                                             page.docHeight),
                                  elem.top, elem.top + elem.height)]
          /\ pc' = "restore" /\ exc' = exc
       \/ /\ outFile' = outFile
          /\ pc' = SingleShotFailTarget /\ exc' = "OSError"
    /\ UNCHANGED <<page, scrollY, windowSize, max_single_height, fullLocals,
                   calls, restored, mainVars, drivers, niftyVars>>

\* Lines 120-124: the restore; its own failure is swallowed.
Restore ==
    /\ pc = "restore"
    /\ calls' = Bump(calls, "resize")
    /\ \/ windowSize' = orig_size /\ restored' = "ok"
       \/ windowSize' = windowSize /\ restored' = "failed"
    /\ pc' = IF exc = "none" THEN "done" ELSE "raised"
    /\ UNCHANGED <<page, scrollY, max_single_height, exc, fullLocals, outFile,
                   mainVars, drivers, niftyVars>>

\* Lines 127-141: the tile offsets and the blank canvas.
ComputeTiles ==
    /\ pc = "branch"
    /\ elem.doc_height > max_single_height
    /\ viewport_h' = metrics.viewportHeight
    /\ tiles' = TileOffsets(TileStart(elem.top, viewport_h'),
                            elem.top + elem.height, viewport_h')
    /\ stitched' = [r \in 1..elem.height |-> NoPixel]
    /\ pasted_any' = FALSE
    /\ idx' = 1
    /\ pc' = "tile"
    /\ UNCHANGED <<page, scrollY, windowSize, max_single_height, exc, metrics,
                   elem, orig_size, placed, outFile, calls, restored, mainVars, drivers, niftyVars>>

\* Line 143: window.scrollTo of the next tile; the page takes the clamped
\* offset. A raising call leaves the function.
TileScroll ==
    /\ pc = "tile"
    /\ idx <= Len(tiles)
    /\ calls' = Bump(calls, "scroll")
    /\ \/ /\ scrollY' = ClampScroll(tiles[idx], page.docHeight, page.viewportHeight)
          /\ pc' = "tile_capture" /\ exc' = exc
       \/ /\ scrollY' = scrollY
          /\ pc' = "raised" /\ exc' = "WebDriverException"
    /\ UNCHANGED <<page, windowSize, max_single_height, fullLocals, outFile,
                   restored, mainVars, drivers, niftyVars>>

\* Lines 144-160, after the settle delay: the capture of the viewport as the
\* page now shows it, the crop and the paste.
TileCapture ==
    /\ pc = "tile_capture"
    /\ calls' = Bump(calls, "capture")
    /\ LET scroll_y == tiles[idx]
           img == Screenshot(scrollY, page.viewportHeight, page.docHeight)
           rel_top == RelTop(elem.top, scroll_y)
           crop_top == CropTop(rel_top)
           crop_bottom == CropBottom(rel_top, elem.height, viewport_h)
           paste_y == PasteY(scroll_y, elem.top)
       IN \/ /\ IF crop_bottom <= crop_top
                THEN UNCHANGED <<stitched, pasted_any, placed>>
                ELSE /\ stitched' = PasteRows(stitched,
                                       CropRows(img, crop_top, crop_bottom),
                                       paste_y)
                     /\ pasted_any' = TRUE
                     /\ placed' = Append(placed,
                                    [lo |-> paste_y,
                                     hi |-> paste_y + (crop_bottom - crop_top)])
             /\ idx' = idx + 1
             /\ pc' = "tile" /\ exc' = exc
          \/ /\ pc' = "raised" /\ exc' = "WebDriverException"
             /\ UNCHANGED <<idx, stitched, pasted_any, placed>>
    /\ UNCHANGED <<page, scrollY, windowSize, max_single_height, metrics, elem,
                   orig_size, viewport_h, tiles, outFile, restored, mainVars,
                   drivers, niftyVars>>

\* Lines 162-166.
FinishTiled ==
    /\ pc = "tile"
    /\ idx > Len(tiles)
    /\ IF ~pasted_any
       THEN pc' = "raised" /\ exc' = "StitchFailed" /\ outFile' = outFile
       ELSE \/ /\ outFile' = [written |-> TRUE,
                              width |-> elem.width,
                              height |-> Len(stitched),
                              rows |-> stitched]
               /\ pc' = "done" /\ exc' = exc
            \/ pc' = "raised" /\ exc' = "OSError" /\ outFile' = outFile
    /\ UNCHANGED <<page, scrollY, windowSize, max_single_height, fullLocals,
                   calls, restored, mainVars, drivers, niftyVars>>

NoCalls == [geometry |-> 0, resize |-> 0, scroll |-> 0, capture |-> 0]
InitialWindow == [width |-> DefaultWindowWidth, height |-> DefaultWindowHeight]

MainIdle ==
    /\ margs = [full |-> FALSE, test_bot |-> FALSE, test_send |-> FALSE,
                no_send |-> FALSE, token |-> FALSE, chat |-> FALSE]
    /\ mpc = "idle"
    /\ mexc = "none"
    /\ captureFn = "none"
    /\ captured = "none"
    /\ uploads = <<>>
    /\ quits = 0

NiftyIdle ==
    /\ nargs = [token |-> FALSE, chat |-> FALSE, intervals |-> <<>>]
    /\ npc = "idle"
    /\ nidx = 1
    /\ nexc = "none"
    /\ ncaptures = <<>>
    /\ nsent = <<>>

\* capture_element_full called on some page, at some scroll offset.
Init ==
    /\ page \in {p \in Pages : ReachablePage(p)}
    /\ scrollY \in {0, page.docHeight - page.viewportHeight}
    /\ windowSize = InitialWindow
    /\ max_single_height = MaxDoc \div 2
    /\ pc = "wait"
    /\ exc = "none"
    /\ metrics = NoMetrics
    /\ elem = ElemOf(NoMetrics)
    /\ orig_size = NoSize
    /\ viewport_h = 0
    /\ tiles = <<>>
    /\ idx = 1
    /\ stitched = <<>>
    /\ pasted_any = FALSE
    /\ placed = <<>>
    /\ outFile = NoFile
    /\ calls = NoCalls
    /\ restored = "none"
    /\ MainIdle
    /\ drivers = 0
    /\ NiftyIdle

Next ==
    \/ WaitForElement
    \/ QueryMetrics
    \/ SingleShotBegin
    \/ Resize
    \/ SingleScreenshot
    \/ SingleCrop
    \/ SingleSave
    \/ Restore
    \/ ComputeTiles
    \/ TileScroll
    \/ TileCapture
    \/ FinishTiled

Spec == Init /\ [][Next]_vars

\* ------------------------------------------------- main (get_watchlist_data)
ArgSets ==
    [full : BOOLEAN, test_bot : BOOLEAN, test_send : BOOLEAN,
     no_send : BOOLEAN, token : BOOLEAN, chat : BOOLEAN]

\* Line 287: the function main calls to capture the element.
CaptureFunction(args) == "capture_element_screenshot"

\* Lines 308-311: an exception inside the try of lines 304-307 is followed by
\* sendDocument.
PhotoFailTarget == "send_document"

\* Lines 314-315: an exception inside the try of lines 311-313 is printed,
\* not raised.
DocumentFailure == "none"

\* Line 249: --screenshot-path defaults to a fixed name, so a run may start
\* with the file an earlier run left there.
PreviousFile == [written |-> TRUE, content |-> "previous run"]
\* Line 84, elem.screenshot(out_path) returning True: the file holds this
\* run's capture.
CapturedFile == [written |-> TRUE, content |-> "capture"]
\* Line 84, elem.screenshot(out_path) returning False after the file was
\* opened for writing: the write failed and the file is cut short.
TruncatedFile == [written |-> TRUE, content |-> "truncated"]
\* Lines 84-85: the file at out_path once elem.screenshot has returned. Its
\* result is not read: True with the capture saved, or False with the file
\* as it was (it could not be opened) or cut short (the write failed).
ElementScreenshotFiles(old) == {CapturedFile, old, TruncatedFile}

fullState == <<page, scrollY, windowSize, max_single_height, pc, exc,
               fullLocals, calls, restored>>

\* Line 258: create_driver, outside the try.
MCreateDriver ==
    /\ mpc = "start"
    /\ \/ mpc' = "get" /\ mexc' = mexc /\ drivers' = drivers + 1
       \/ mpc' = "raised" /\ mexc' = "WebDriverException" /\ drivers' = drivers
    /\ UNCHANGED <<fullState, niftyVars, outFile, margs, captureFn, captured, uploads, quits>>

\* Lines 260-261: driver.get raises, or the print after it does.
MNavigate ==
    /\ mpc = "get"
    /\ \/ mpc' = "test_bot" /\ mexc' = mexc
       \/ mpc' = "finally" /\ mexc' \in {"WebDriverException", "OSError"}
    /\ UNCHANGED <<fullState, niftyVars, drivers, outFile, margs, captureFn, captured, uploads, quits>>

\* Lines 264-273: getMe succeeds or fails and main returns; the print before
\* the try (line 267) or the one in the handler (line 272) may raise.
MTestBot ==
    /\ mpc = "test_bot"
    /\ IF margs.test_bot
       THEN IF ~margs.token
            THEN mpc' = "finally" /\ mexc' = "SystemExit"
            ELSE mpc' = "finally" /\ mexc' \in {mexc, "OSError"}
       ELSE mpc' = "test_send" /\ mexc' = mexc
    /\ UNCHANGED <<fullState, niftyVars, drivers, outFile, margs, captureFn, captured, uploads, quits>>

\* Lines 275-284: sendMessage succeeds or fails and main returns; the print
\* before the try (line 278) or the one in the handler (line 283) may raise.
MTestSend ==
    /\ mpc = "test_send"
    /\ IF margs.test_send
       THEN IF ~margs.token \/ ~margs.chat
            THEN mpc' = "finally" /\ mexc' = "SystemExit"
            ELSE mpc' = "finally" /\ mexc' \in {mexc, "OSError"}
       ELSE mpc' = "capture" /\ mexc' = mexc
    /\ UNCHANGED <<fullState, niftyVars, drivers, outFile, margs, captureFn, captured, uploads, quits>>

\* element.scrollIntoView({block: 'center'}): the offset that centres the
\* element in the viewport, in 1/(2*SubPixel) px.
CentredOffset4(p) == 2 * p.top2 + p.height2 - p.viewportHeight * SubPixel
\* The page takes a whole-pixel offset next to it, clamped to its range.
ScrollIntoViewOffsets(p) ==
    { ClampScroll(CentredOffset4(p) \div (2 * SubPixel), p.docHeight,
                  p.viewportHeight),
      ClampScroll(0 - ((0 - CentredOffset4(p)) \div (2 * SubPixel)), p.docHeight,
                  p.viewportHeight) }

mainPageRest == <<page, windowSize, max_single_height, pc, exc, fullLocals,
                  calls, restored>>

\* Line 286: the print before the capture raises; or line 287 entering
\* capture_element_screenshot, lines 78-81: the wait times out, or the
\* element is scrolled into view, or that call raises.
MCaptureLocate ==
    /\ mpc = "capture"
    /\ \/ /\ captureFn' = captureFn /\ captured' = captured
          /\ scrollY' = scrollY
          /\ mpc' = "finally" /\ mexc' = "OSError"
       \/ /\ captureFn' = CaptureFunction(margs)
          /\ IF ~ElementFound(page)
             THEN /\ captured' = "raised" /\ scrollY' = scrollY
                  /\ mpc' = "finally" /\ mexc' = "TimeoutException"
             ELSE \/ /\ scrollY' \in ScrollIntoViewOffsets(page)
                     /\ captured' = captured
                     /\ mpc' = "capture_shot" /\ mexc' = mexc
                  \/ /\ scrollY' = scrollY
                     /\ captured' = "raised"
                     /\ mpc' = "finally" /\ mexc' = "WebDriverException"
    /\ UNCHANGED <<mainPageRest, outFile, niftyVars, drivers, margs, uploads, quits>>

\* Lines 82-85, after the settle delay: the element screenshot raises, or
\* it returns and capture_element_screenshot returns out_path whatever the
\* result was.
MCaptureShot ==
    /\ mpc = "capture_shot"
    /\ \/ /\ captured' = "ok"
          /\ outFile' \in ElementScreenshotFiles(outFile)
          /\ mpc' = "send_check" /\ mexc' = mexc
       \/ /\ captured' = "raised" /\ outFile' = outFile
          /\ mpc' = "finally" /\ mexc' = "WebDriverException"
    /\ UNCHANGED <<fullState, niftyVars, drivers, margs, captureFn, uploads, quits>>

\* Lines 288-302: the print of line 288 or of line 302 raises, or the
\* checks decide; os.path.exists (line 296) asks only whether a file is there.
MCheckSend ==
    /\ mpc = "send_check"
    /\ \/ IF margs.no_send
          THEN mpc' = "finally" /\ mexc' = mexc
          ELSE IF ~margs.token \/ ~margs.chat
               THEN mpc' = "finally" /\ mexc' = "SystemExit"
               ELSE IF ~outFile.written
                    THEN mpc' = "finally" /\ mexc' = "SystemExit"
                    ELSE mpc' = "send_photo" /\ mexc' = mexc
       \/ mpc' = "finally" /\ mexc' = "OSError"
    /\ UNCHANGED <<fullState, niftyVars, drivers, outFile, margs, captureFn, captured, uploads, quits>>

\* Lines 304-309. The try holds the sendPhoto call and the two prints of its
\* result: sendPhoto returns and both prints succeed; or sendPhoto raises
\* (ok FALSE) or one of the prints raises after it returned (ok TRUE), and
\* the handler prints (line 309, which may raise too) and falls back.
MSendPhoto ==
    /\ mpc = "send_photo"
    /\ \/ /\ uploads' = Append(uploads, [method |-> "sendPhoto", ok |-> TRUE])
          /\ mpc' = "finally" /\ mexc' = mexc
       \/ \E returned \in BOOLEAN :
             /\ uploads' = Append(uploads,
                              [method |-> "sendPhoto", ok |-> returned])
             /\ \/ mpc' = PhotoFailTarget /\ mexc' = mexc
                \/ mpc' = "finally" /\ mexc' = "OSError"
    /\ UNCHANGED <<fullState, niftyVars, drivers, outFile, margs, captureFn, captured, quits>>

\* Lines 310-315. The inner try holds the sendDocument call and the two
\* prints of its result: all succeed; or sendDocument raises (ok FALSE) or a
\* print raises after it returned (ok TRUE), and the handler prints (line
\* 315, which may raise too).
MSendDocument ==
    /\ mpc = "send_document"
    /\ \/ /\ uploads' = Append(uploads, [method |-> "sendDocument", ok |-> TRUE])
          /\ mexc' = mexc
       \/ \E returned \in BOOLEAN :
             /\ uploads' = Append(uploads,
                              [method |-> "sendDocument", ok |-> returned])
             /\ mexc' \in {DocumentFailure, "OSError"}
    /\ mpc' = "finally"
    /\ UNCHANGED <<fullState, niftyVars, drivers, outFile, margs, captureFn, captured, quits>>

\* Lines 316-317: driver.quit() is called; when it raises, its exception
\* replaces the one in flight.
MFinally ==
    /\ mpc = "finally"
    /\ quits' = quits + 1
    /\ \/ /\ mpc' = IF mexc = "none" THEN "done" ELSE "raised"
          /\ mexc' = mexc
       \/ /\ mpc' = "raised"
          /\ mexc' = "WebDriverException"
    /\ UNCHANGED <<fullState, niftyVars, drivers, outFile, margs, captureFn, captured, uploads>>

\* main run against a page on which the element exists or not, in a
\* directory where an earlier run has left its screenshot or not.
MainInit ==
    /\ page \in {p \in Pages : /\ ReachablePage(p)
                               /\ p.docHeight = MaxDoc /\ p.viewportHeight = MaxViewport
                               /\ p.top2 = 0 /\ p.width2 = SubPixel
                               /\ p.height2 = MaxElemHeight * SubPixel}
    /\ scrollY = 0
    /\ windowSize = InitialWindow
    /\ max_single_height = MaxDoc \div 2
    /\ pc = "idle"
    /\ exc = "none"
    /\ metrics = NoMetrics
    /\ elem = ElemOf(NoMetrics)
    /\ orig_size = NoSize
    /\ viewport_h = 0
    /\ tiles = <<>>
    /\ idx = 1
    /\ stitched = <<>>
    /\ pasted_any = FALSE
    /\ placed = <<>>
    /\ outFile \in {NoFile, PreviousFile}
    /\ calls = NoCalls
    /\ restored = "none"
    /\ margs \in ArgSets
    /\ mpc = "start"
    /\ mexc = "none"
    /\ captureFn = "none"
    /\ captured = "none"
    /\ uploads = <<>>
    /\ quits = 0
    /\ drivers = 0
    /\ NiftyIdle

MainNext ==
    \/ MCreateDriver
    \/ MNavigate
    \/ MTestBot
    \/ MTestSend
    \/ MCaptureLocate
    \/ MCaptureShot
    \/ MCheckSend
    \/ MSendPhoto
    \/ MSendDocument
    \/ MFinally

MainSpec == MainInit /\ [][MainNext]_vars

\* ------------------------------------------ main (capture_nifty_screenshots)
Intervals == {"15", "60", "D"}
RECURSIVE SeqsUpTo(_, _)
SeqsUpTo(S, n) ==
    IF n = 0 THEN {<<>>}
    ELSE LET shorter == SeqsUpTo(S, n - 1)
         IN shorter \cup {Append(q, x) : q \in shorter, x \in S}
NiftyArgSets ==
    [token : BOOLEAN, chat : BOOLEAN,
     intervals : SeqsUpTo(Intervals, MaxIntervals) \ {<<>>}]

\* capture_chart, lines 89-109: the screenshot comes from the first selector
\* that works, else from the whole page.
ChartSources ==
    {"div.tv-chart-view", "div.chart-container", "div#tv_chart_container", "page"}

\* Lines 148-151: the upload failure is printed and the loop goes on.
NiftyUploadFailTarget == "loop"

\* Lines 152-153: the finally clause calls driver.quit() once.
NiftyQuits(e) == 1

nOther == <<fullState, outFile, mainVars>>

\* Lines 134-136: without token or chat id main prints and returns before
\* any driver; that print may raise.
NCheckArgs ==
    /\ npc = "start"
    /\ IF ~nargs.token \/ ~nargs.chat
       THEN \/ npc' = "done" /\ nexc' = nexc
            \/ npc' = "raised" /\ nexc' = "OSError"
       ELSE npc' = "create" /\ nexc' = nexc
    /\ UNCHANGED <<nOther, drivers, nargs, nidx, ncaptures, nsent>>

\* Lines 138-139: makedirs and create_driver (with its print, line 48),
\* outside the try.
NCreateDriver ==
    /\ npc = "create"
    /\ \/ npc' = "loop" /\ nexc' = nexc /\ drivers' = drivers + 1
       \/ /\ npc' = "raised" /\ drivers' = drivers
          /\ nexc' \in {"WebDriverException", "OSError"}
    /\ UNCHANGED <<nOther, nargs, nidx, ncaptures, nsent>>

\* Lines 142-146 with capture_chart (69-109): the print of line 145, the
\* navigation, the fallback screenshot or its save may raise; otherwise a
\* screenshot is saved.
NCapture ==
    /\ npc = "loop"
    /\ nidx <= Len(nargs.intervals)
    /\ \/ \E src \in ChartSources :
            /\ ncaptures' = Append(ncaptures,
                              [interval |-> nargs.intervals[nidx], source |-> src])
            /\ npc' = "send" /\ nexc' = nexc
       \/ /\ ncaptures' = ncaptures
          /\ npc' = "finally" /\ nexc' \in {"WebDriverException", "OSError"}
    /\ UNCHANGED <<nOther, drivers, nargs, nidx, nsent>>

\* Lines 147-151: the print before the try raises; or the upload succeeds;
\* or it fails and the handler prints the failure and the loop goes on, or
\* that print raises and leaves the loop.
NSend ==
    /\ npc = "send"
    /\ \/ /\ nsent' = nsent /\ nidx' = nidx
          /\ npc' = "finally" /\ nexc' = "OSError"
       \/ /\ nsent' = Append(nsent, [interval |-> nargs.intervals[nidx], ok |-> TRUE])
          /\ npc' = "loop" /\ nidx' = nidx + 1 /\ nexc' = nexc
       \/ /\ nsent' = Append(nsent, [interval |-> nargs.intervals[nidx], ok |-> FALSE])
          /\ \/ npc' = NiftyUploadFailTarget /\ nidx' = nidx + 1 /\ nexc' = nexc
             \/ npc' = "finally" /\ nidx' = nidx /\ nexc' = "OSError"
    /\ UNCHANGED <<nOther, drivers, nargs, ncaptures>>

\* Line 142: the for loop is exhausted.
NLoopEnd ==
    /\ npc = "loop"
    /\ nidx > Len(nargs.intervals)
    /\ npc' = "finally"
    /\ UNCHANGED <<nOther, drivers, nargs, nidx, nexc, ncaptures, nsent>>

\* Lines 152-153: driver.quit() is called; when it raises, its exception
\* replaces the one in flight.
NFinally ==
    /\ npc = "finally"
    /\ quits' = quits + NiftyQuits(nexc)
    /\ \/ /\ npc' = IF nexc = "none" THEN "done" ELSE "raised"
          /\ nexc' = nexc
       \/ /\ npc' = "raised"
          /\ nexc' = "WebDriverException"
    /\ UNCHANGED <<fullState, outFile, margs, mpc, mexc, captureFn, captured,
                   uploads, drivers, nargs, nidx, ncaptures, nsent>>

NiftyInit ==
    /\ page \in {p \in Pages : /\ ReachablePage(p) /\ ~p.present
                               /\ p.docHeight = MaxDoc /\ p.viewportHeight = MaxViewport
                               /\ p.top2 = 0 /\ p.width2 = SubPixel
                               /\ p.height2 = MaxElemHeight * SubPixel}
    /\ scrollY = 0
    /\ windowSize = InitialWindow
    /\ max_single_height = MaxDoc \div 2
    /\ pc = "idle"
    /\ exc = "none"
    /\ metrics = NoMetrics
    /\ elem = ElemOf(NoMetrics)
    /\ orig_size = NoSize
    /\ viewport_h = 0
    /\ tiles = <<>>
    /\ idx = 1
    /\ stitched = <<>>
    /\ pasted_any = FALSE
    /\ placed = <<>>
    /\ outFile = NoFile
    /\ calls = NoCalls
    /\ restored = "none"
    /\ MainIdle
    /\ drivers = 0
    /\ nargs \in NiftyArgSets
    /\ npc = "start"
    /\ nidx = 1
    /\ nexc = "none"
    /\ ncaptures = <<>>
    /\ nsent = <<>>

NiftyNext ==
    \/ NCheckArgs
    \/ NCreateDriver
    \/ NCapture
    \/ NSend
    \/ NLoopEnd
    \/ NFinally

\* Either script is run.
ScriptsInit == MainInit \/ NiftyInit
ScriptsNext == MainNext \/ NiftyNext
ScriptsSpec == ScriptsInit /\ [][ScriptsNext]_vars

\* ------------------------------------------------------------ properties
Exited == pc \in {"done", "raised"}
OnTiledPath ==
    /\ pc \in {"tile", "tile_capture", "done", "raised"}
    /\ metrics # NoMetrics
    /\ elem.doc_height > max_single_height
\* The single-shot path from the point where the window size is recorded.
OnSinglePath ==
    /\ pc \in {"resize", "screenshot", "crop", "save", "restore", "done", "raised"}
    /\ metrics # NoMetrics
    /\ elem.doc_height <= max_single_height
    /\ orig_size # NoSize
AllTilesProcessed == OnTiledPath /\ idx > Len(tiles)

\* Number of pasted tiles whose destination range holds canvas row r.
PasteCount(r) ==
    Cardinality({i \in 1..Len(placed) : placed[i].lo <= r /\ r < placed[i].hi})
ExactPartition ==
    /\ \A i \in 1..Len(placed) :
          0 <= placed[i].lo /\ placed[i].lo < placed[i].hi
                            /\ placed[i].hi <= elem.height
    /\ \A r \in 0..(elem.height - 1) : PasteCount(r) = 1

\* C1 as stated: for every viewport height >= 1, every element top and every
\* element height >= 1, once all tiles are processed the destination ranges
\* of the contributing tiles exactly partition [0, H).
C1_PartitionAnyTop ==
    (AllTilesProcessed /\ viewport_h >= 1 /\ elem.height >= 1) => ExactPartition

\* C1 amended: the same for an element top T >= 0 (an element starting above
\* document row 0 leaves the rows above row 0 unpasted).
C1_PartitionNonNegativeTop ==
    (AllTilesProcessed /\ viewport_h >= 1 /\ elem.height >= 1 /\ elem.top >= 0)
        => ExactPartition

C1_Witness ==
    /\ AllTilesProcessed /\ elem.top >= 1 /\ elem.top % viewport_h # 0
    /\ Len(placed) >= 3 /\ ExactPartition

FirstOffset == (elem.top \div viewport_h) * viewport_h
EndY == elem.top + elem.height
TilesInScope == OnTiledPath /\ viewport_h >= 1 /\ elem.top >= 0 /\ EndY > elem.top
SteppedFromFirst ==
    \A i \in 1..Len(tiles) : tiles[i] = FirstOffset + (i - 1) * viewport_h

\* C2 as stated: the tile offsets are floor(T/V)*V, +V, ... in increasing
\* order with step V, up to and including the first offset >= B.
C2_TilesIncludeFirstPastBottom ==
    TilesInScope =>
        /\ Len(tiles) >= 1
        /\ SteppedFromFirst
        /\ tiles[Len(tiles)] >= EndY
        /\ \A i \in 1..(Len(tiles) - 1) : tiles[i] < EndY

\* C2 amended: the tile offsets are floor(T/V)*V, +V, ... with step V, every
\* offset below B: the sequence stops before the first offset >= B.
C2_TilesStopBeforeBottom ==
    TilesInScope =>
        /\ Len(tiles) >= 1
        /\ SteppedFromFirst
        /\ \A i \in 1..Len(tiles) : tiles[i] < EndY
        /\ tiles[Len(tiles)] + viewport_h >= EndY

C2_Witness ==
    /\ TilesInScope /\ Len(tiles) >= 2 /\ elem.top % viewport_h # 0
    /\ EndY % viewport_h = 0

\* C3: the image written by the tiled path shows, in canvas row r, document
\* row element_top + r (stated for an element lying inside the document).
C3_PixelExact ==
    (/\ OnTiledPath /\ pc = "done" /\ outFile.written
     /\ elem.top >= 0 /\ elem.top + elem.height <= page.docHeight)
        => \A r \in 0..(elem.height - 1) : outFile.rows[r + 1] = elem.top + r

\* C4 as stated: on every exit from the single-shot path, by a normal return
\* or by an exception of the resize, the screenshot, the crop or the save,
\* the window size equals the size recorded before the resize.
C4_WindowAlwaysRestored ==
    (OnSinglePath /\ Exited) => windowSize = orig_size

\* C4 amended: on every such exit the restore has been attempted exactly
\* once, and the window size equals the size recorded before the resize
\* whenever the restoring call itself did not fail.
C4_WindowRestoredUnlessRestoreFails ==
    (OnSinglePath /\ Exited) =>
        /\ restored \in {"ok", "failed"}
        /\ calls.resize = 2
        /\ orig_size = InitialWindow
        /\ restored = "ok" => windowSize = orig_size

C4_Witness ==
    /\ OnSinglePath /\ pc = "raised" /\ exc = "OSError"
    /\ restored = "ok" /\ windowSize = orig_size

\* n is the ceiling of the fraction x / SubPixel.
IsCeilOf(n, x) == n * SubPixel >= x /\ (n - 1) * SubPixel < x

\* C5: whenever an output file is written, on either path, its dimensions
\* are (ceil(width), ceil(height)) of the bounding box of the geometry query.
C5_OutputDimensions ==
    outFile.written =>
        /\ calls.geometry = 1
        /\ IsCeilOf(outFile.width, page.width2)
        /\ IsCeilOf(outFile.height, page.height2)

C5_Witness ==
    /\ outFile.written /\ OnTiledPath /\ Len(placed) >= 2
    /\ page.height2 % SubPixel # 0 /\ page.width2 % SubPixel # 0
    /\ scrollY # 0

\* C6: the stitch failure is raised exactly when all tiles were processed
\* and none contributed, and then no file is written; with viewport height
\* >= 1, element height >= 1 and element top >= 0 the first tile
\* contributes, so the stitch failure is not raised.
C6_StitchFailure ==
    /\ exc = "StitchFailed" =>
          pc = "raised" /\ AllTilesProcessed /\ placed = <<>> /\ ~outFile.written
    /\ (AllTilesProcessed /\ Exited /\ placed = <<>>) => exc = "StitchFailed"
    /\ (OnTiledPath /\ viewport_h >= 1 /\ elem.height >= 1 /\ elem.top >= 0) =>
          /\ exc # "StitchFailed"
          /\ Len(tiles) >= 1
          /\ idx > 1 => placed # <<>>

C6_Witness ==
    /\ exc = "StitchFailed" /\ pc = "raised" /\ ~outFile.written
    /\ Len(tiles) >= 1 /\ idx > Len(tiles) /\ placed = <<>>

\* C7: if the element never appears the call ends in the element-not-found
\* error, with no file written and no geometry query, resize, scroll or
\* capture performed.
C7_ElementNotFound ==
    /\ (~page.present /\ pc # "wait") => (pc = "raised" /\ exc = "ElementNotFound")
    /\ exc = "ElementNotFound" =>
          /\ ~page.present
          /\ ~outFile.written
          /\ calls = NoCalls
          /\ windowSize = InitialWindow

C7_Witness == ~page.present /\ pc = "raised" /\ exc = "ElementNotFound"

\* C8: with --full (and neither --test-bot nor --test-send) main captures
\* the element through capture_element_full; without --full through
\* capture_element_screenshot.
C8_FullFlagSelectsFullCapture ==
    (captureFn # "none" /\ ~margs.test_bot /\ ~margs.test_send) =>
        captureFn = IF margs.full THEN "capture_element_full"
                                  ELSE "capture_element_screenshot"

TileCountForAlignment == IF elem.top % viewport_h = 0 THEN 1 ELSE 2
NoBlankRows == \A r \in 0..(elem.height - 1) : PasteCount(r) >= 1

\* C9 as stated: an element exactly one viewport high gets one tile when its
\* top is a multiple of V and two tiles otherwise, and the stitched canvas
\* has no blank row.
C9_OneViewportElementAnyTop ==
    (OnTiledPath /\ viewport_h >= 1 /\ elem.height = viewport_h) =>
        /\ Len(tiles) = TileCountForAlignment
        /\ AllTilesProcessed => NoBlankRows

\* C9 amended: the same for an element top T >= 0 (an element starting above
\* document row 0 gets fewer tiles and keeps blank rows).
C9_OneViewportElementNonNegativeTop ==
    (OnTiledPath /\ viewport_h >= 1 /\ elem.height = viewport_h /\ elem.top >= 0) =>
        /\ Len(tiles) = TileCountForAlignment
        /\ AllTilesProcessed => NoBlankRows

C9_Witness ==
    /\ AllTilesProcessed /\ elem.height = viewport_h /\ viewport_h >= 2
    /\ elem.top >= 1 /\ Len(tiles) = 2 /\ Len(placed) = 2 /\ NoBlankRows

MainEnded == mpc \in {"done", "raised"}

\* The capture has succeeded: capture_element_screenshot returned and the
\* file at the screenshot path holds this run's capture.
CaptureSucceeded ==
    captured = "ok" /\ outFile.written /\ outFile.content = "capture"

\* C10: with sending enabled and token and chat id present, an upload is
\* attempted only after the element capture has succeeded; sendPhoto is
\* attempted first; sendDocument is attempted exactly when sendPhoto raised
\* and never otherwise; when both fail the error is swallowed: main leaves
\* the try with no exception in flight.
C10_UploadOrder ==
    /\ Len(uploads) <= 2
    /\ uploads # <<>> =>
          /\ CaptureSucceeded
          /\ ~margs.no_send /\ margs.token /\ margs.chat
          /\ uploads[1].method = "sendPhoto"
    /\ Len(uploads) = 2 =>
          uploads[2].method = "sendDocument" /\ ~uploads[1].ok
    /\ (MainEnded /\ uploads # <<>> /\ ~uploads[1].ok) => Len(uploads) = 2
    /\ (mpc = "finally" /\ Len(uploads) = 2 /\ ~uploads[2].ok) =>
          mexc = "none"

NiftyEnded == npc \in {"done", "raised"}
ScriptEnded == MainEnded \/ NiftyEnded
InOrder(h) ==
    /\ Len(h) <= Len(nargs.intervals)
    /\ \A i \in 1..Len(h) : h[i].interval = nargs.intervals[i]

\* Once create_driver has returned a driver, driver.quit is called exactly
\* once, as the last step before main ends.
QuitOncePerDriver ==
    /\ quits <= drivers /\ drivers <= 1
    /\ ScriptEnded => quits = drivers
    /\ quits = 1 => ScriptEnded

\* The for loop was left at the interval whose upload failed (after an
\* upload the loop goes on with nidx one past the uploads made).
LoopLeftOnFailedUpload ==
    /\ npc \in {"finally", "raised"}
    /\ nsent # <<>> /\ nidx = Len(nsent)
    /\ ~nsent[nidx].ok

\* C11: in both scripts, once create_driver has returned a driver,
\* driver.quit is called exactly once before main ends, on every path
\* (normal completion, early returns, SystemExit, an exception from
\* navigation or capture); in capture_nifty_screenshots an upload failure at
\* any interval does not stop the remaining intervals from being captured
\* and sent in the given order.
C11_QuitExactlyOnce ==
    /\ QuitOncePerDriver
    /\ InOrder(ncaptures) /\ InOrder(nsent)
    /\ Len(nsent) <= Len(ncaptures) /\ Len(ncaptures) <= Len(nsent) + 1
    /\ (npc = "done" /\ drivers = 1) =>
          /\ Len(ncaptures) = Len(nargs.intervals)
          /\ Len(nsent) = Len(nargs.intervals)
    /\ ~(LoopLeftOnFailedUpload /\ nidx < Len(nargs.intervals))

====
